---- MODULE Spec2Model ----
(***************************************************************************)
(* A model of the id-cache crate: the id allocator (IdCache), the dense    *)
(* storage built on it (CacheStorage / Storage) and the shared-access      *)
(* IdCache of lib.rs (atomic top_id, RwLock-protected free list).          *)
(*                                                                         *)
(* An Option<Id> is a sequence of length 0 (None) or 1 (Some(id)).         *)
(* A Vec is a sequence; the top of the free-id stack is its last element.  *)
(***************************************************************************)
EXTENDS Integers, Sequences, FiniteSets, TLC

\* ------------------------------------------------------------------ bounds
\* top_id and data.len() never grow past MaxId in the model.
MaxId == 4
\* Capacities tried for with_capacity: 0..MaxCap.
MaxCap == 3
\* Longest batch handed to release_ids / remove_chunk / extend.
MaxBatch == 2
\* Values stored in a dense storage are 1..MaxVal.
MaxVal == 2
\* data.len() and top_id of a dense storage never grow past MaxLen in the model
\* (or past the capacity it was built with, when that is larger).
MaxLen == 2
\* with_capacity(n) of a dense storage used as a fixed pool: n <= MaxPool
MaxPool == 3
\* The volume of a shrinkable storage never grows past MaxVol in the model.
MaxVol == 3
\* top_id of the shared-access model never grows past MaxSharedId, and the
\* capacities tried for it are 0..MaxSharedCap.
MaxSharedId == 3
MaxSharedCap == 1
\* Threads of the shared-access model are 1..NumThreads.
NumThreads == 2
MaxResets == 1

Ids == 0..(MaxId - 1)
Caps == 0..MaxCap
Values == 1..MaxVal
Threads == 1..NumThreads
SharedIds == 0..(MaxSharedId - 1)

VARIABLES
    top_id,     \* IdCache.top_id
    free_ids,   \* IdCache.free_ids (Vec<Id>, a stack)
    data,       \* CacheStorage.data (Vec<T>)
    held,       \* ghost: the ids issued to the caller and not released since
    order,      \* ghost: the free ids, oldest release first
    live,       \* ghost: live id -> value last written for it (dense storage)
    cap,        \* ghost: the capacity the structure was constructed with
    run,        \* ghost: acquire_id calls so far if nothing else was called, else -1
    direct,     \* ghost: the ids whose slot a direct insert_with_id call appended,
                \* and that have not been removed since
    last,       \* ghost: the last call: its name, argument, result, panic
    pre,        \* ghost: the state in which the last call was made
    lock,       \* shared access: the thread holding the RwLock write guard, 0 if none
    pc,         \* shared access: thread -> its position in the current call
    loc,        \* shared access: thread -> the id argument of its release_id call
    owned,      \* shared access, ghost: thread -> (id -> how many times it holds id)
    pusher,     \* shared access, ghost: the thread whose release_id pushed the top
                \* entry of free_ids; 0 once a pop has uncovered an older entry,
                \* and no longer kept once handoff is set
    handoff,    \* shared access, ghost: some thread got an id another thread released
    readers,    \* shared access: the threads holding a read guard of the RwLock
    poisoned,   \* shared access: the RwLock is poisoned (a thread panicked with the
                \* write guard)
    batch,      \* shared access: thread -> the ids its release_ids call has yet to push
    track,      \* shared access, ghost: raced, the threads whose acquire_id found the
                \* free list empty and has seen a release push an id since; resets,
                \* the number of reset() calls so far
    debug_assertions  \* cfg(debug_assertions): whether debug_assert! is compiled in

vars == <<top_id, free_ids, data, held, order, live, cap, run, direct, last, pre,
          lock, pc, loc, owned, pusher, handoff, readers, poisoned, batch, track,
          debug_assertions>>

\* ------------------------------------------------------------ Vec helpers
None == <<>>
Some(x) == <<x>>

Range(s) == {s[i] : i \in DOMAIN s}

IsDistinct(s) == \A i, j \in DOMAIN s : i # j => s[i] # s[j]

Without(s, x) == SelectSeq(s, LAMBDA y : y # x)

\* Sequences over S of length lo..hi.
SeqsOf(S, lo, hi) == UNION {[1..n -> S] : n \in lo..hi}

\* ------------------------------------------------- IdCache (id_cache.rs)
\* An IdCache value is the record [top_id, free_ids].
IdCache_new == [top_id |-> 0, free_ids |-> <<>>]

\* Mutant of with_capacity: the .rev() forgotten, so capacity-1 is on top.
IdCache_with_capacity_unreversed(capacity) ==
    [top_id |-> capacity, free_ids |-> [i \in 1..capacity |-> i - 1]]

\* (0..capacity).rev().collect(): capacity-1 first, 0 last (the top of the stack).
IdCache_with_capacity(capacity) ==
    [top_id |-> capacity, free_ids |-> [i \in 1..capacity |-> capacity - i]]

\* Mutant of try_acquire_id: the oldest free id is taken (a queue, not a stack).
IdCache_try_acquire_id_fifo(c) ==
    IF Len(c.free_ids) = 0
    THEN [cache |-> c, id |-> None]
    ELSE [cache |-> [c EXCEPT !.free_ids = Tail(c.free_ids)],
          id |-> Some(Head(c.free_ids))]

\* Mutant of try_acquire_id: with no free id it issues a fresh one, as acquire_id does.
IdCache_try_acquire_id_grow(c) ==
    IF Len(c.free_ids) = 0
    THEN [cache |-> [c EXCEPT !.top_id = c.top_id + 1], id |-> Some(c.top_id)]
    ELSE [cache |-> [c EXCEPT !.free_ids = SubSeq(c.free_ids, 1, Len(c.free_ids) - 1)],
          id |-> Some(c.free_ids[Len(c.free_ids)])]

\* Vec::pop: the result is [cache, id], id an Option.
IdCache_try_acquire_id(c) ==
    IF Len(c.free_ids) = 0
    THEN [cache |-> c, id |-> None]
    ELSE [cache |-> [c EXCEPT !.free_ids = SubSeq(c.free_ids, 1, Len(c.free_ids) - 1)],
          id |-> Some(c.free_ids[Len(c.free_ids)])]

\* Mutant of acquire_id: top_id is not incremented when a fresh id is issued.
IdCache_acquire_id_no_incr(c) ==
    IF Len(c.free_ids) = 0
    THEN [cache |-> c, id |-> c.top_id]
    ELSE [cache |-> [c EXCEPT !.free_ids = SubSeq(c.free_ids, 1, Len(c.free_ids) - 1)],
          id |-> c.free_ids[Len(c.free_ids)]]

\* Mutant of acquire_id: a fresh id is the value of top_id after the increment.
IdCache_acquire_id_preincr(c) ==
    IF Len(c.free_ids) = 0
    THEN [cache |-> [c EXCEPT !.top_id = c.top_id + 1], id |-> c.top_id + 1]
    ELSE [cache |-> [c EXCEPT !.free_ids = SubSeq(c.free_ids, 1, Len(c.free_ids) - 1)],
          id |-> c.free_ids[Len(c.free_ids)]]

IdCache_acquire_id(c) ==
    LET t == IdCache_try_acquire_id(c)
    IN  IF t.id # None
        THEN [cache |-> t.cache, id |-> t.id[1]]
        ELSE [cache |-> [t.cache EXCEPT !.top_id = t.cache.top_id + 1],
              id |-> t.cache.top_id]

\* Mutant of release_id: the assert is missing.
IdCache_release_id_unchecked(c, id) ==
    [cache |-> [c EXCEPT !.free_ids = Append(c.free_ids, id)], panicked |-> FALSE]

\* assert!(id < self.top_id), then push.
IdCache_release_id(c, id) ==
    IF ~(id < c.top_id)
    THEN [cache |-> c, panicked |-> TRUE]
    ELSE [cache |-> [c EXCEPT !.free_ids = Append(c.free_ids, id)], panicked |-> FALSE]

\* Vec::extend over ids.inspect(assert): each id is checked as it is drawn and
\* pushed before the next one is drawn, so a failing assert leaves the ids that
\* precede it in the free list.
RECURSIVE ExtendInspect(_, _, _)
ExtendInspect(free, ids, top) ==
    IF ids = <<>>
    THEN [free_ids |-> free, panicked |-> FALSE]
    ELSE IF ~(Head(ids) < top)
         THEN [free_ids |-> free, panicked |-> TRUE]
         ELSE ExtendInspect(Append(free, Head(ids)), Tail(ids), top)

IdCache_release_ids(c, ids) ==
    LET r == ExtendInspect(c.free_ids, ids, c.top_id)
    IN  [cache |-> [c EXCEPT !.free_ids = r.free_ids], panicked |-> r.panicked]

\* Mutant of reset: the free list is not cleared.
IdCache_reset_keep_free(c) == [top_id |-> 0, free_ids |-> c.free_ids]

\* Mutant of reset: top_id is not set back to 0.
IdCache_reset_keep_top(c) == [c EXCEPT !.free_ids = <<>>]

IdCache_reset(c) == [top_id |-> 0, free_ids |-> <<>>]

IdCache_free_ids_num(c) == Len(c.free_ids)

\* ------------------------------------------- single-owner IdCache: the calls
Cache == [top_id |-> top_id, free_ids |-> free_ids]

Snapshot == [top_id |-> top_id, free_ids |-> free_ids, data |-> data,
             held |-> held, order |-> order, live |-> live]

Call(op, arg, ret, panicked) ==
    [op |-> op, arg |-> arg, ret |-> ret, panicked |-> panicked]

\* The parts of the state a single-owner IdCache does not have.
StorageIdle == data = <<>> /\ live = <<>> /\ direct = {}
\* The IdCache and the dense storage have no debug_assert!: the build
\* configuration makes no difference to them.
AnyBuild == debug_assertions = TRUE
SharedIdle ==
    /\ lock = 0
    /\ pc = [t \in Threads |-> "idle"]
    /\ loc = [t \in Threads |-> 0]
    /\ owned = [t \in Threads |-> [i \in SharedIds |-> 0]]
    /\ pusher = 0
    /\ handoff = FALSE
    /\ readers = {}
    /\ poisoned = FALSE
    /\ batch = [t \in Threads |-> <<>>]
    /\ track = [raced |-> {}, resets |-> 0]

StorageVars == <<data, live, direct>>
\* Fixed when the structure is built.
ConfigVars == <<cap, debug_assertions>>
RwVars == <<readers, poisoned, batch>>
SharedVars == <<lock, pc, loc, owned, pusher, handoff, RwVars, track>>

\* ghost: the longest prefix of a batch made of ids the caller holds.
RECURSIVE HeldPrefix(_, _)
HeldPrefix(ids, h) ==
    IF ids = <<>> \/ Head(ids) \notin h
    THEN <<>>
    ELSE <<Head(ids)>> \o HeldPrefix(Tail(ids), h)

InitCache(c, n, op) ==
    /\ top_id = c.top_id
    /\ free_ids = c.free_ids
    /\ held = {}
    /\ order = c.free_ids
    /\ cap = n
    /\ AnyBuild
    /\ run = 0
    /\ last = Call(op, <<>>, None, FALSE)
    /\ pre = [top_id |-> c.top_id, free_ids |-> c.free_ids, data |-> <<>>,
              held |-> {}, order |-> c.free_ids, live |-> <<>>]

InitNew == InitCache(IdCache_new, 0, "new")

InitWithCapacity ==
    \E n \in Caps : InitCache(IdCache_with_capacity(n), n, "with_capacity")

Init ==
    /\ InitNew \/ InitWithCapacity
    /\ StorageIdle
    /\ SharedIdle

AcquireId ==
    LET r == IdCache_acquire_id(Cache)
    IN  /\ r.cache.top_id <= MaxId
        /\ top_id' = r.cache.top_id
        /\ free_ids' = r.cache.free_ids
        /\ held' = held \cup {r.id}
        /\ order' = Without(order, r.id)
        /\ run' = IF run >= 0 THEN run + 1 ELSE run
        /\ last' = Call("acquire_id", <<>>, Some(r.id), FALSE)
        /\ pre' = Snapshot
        /\ UNCHANGED <<ConfigVars, StorageVars, SharedVars>>

TryAcquireId ==
    LET r == IdCache_try_acquire_id(Cache)
    IN  /\ top_id' = r.cache.top_id
        /\ free_ids' = r.cache.free_ids
        /\ held' = held \cup Range(r.id)
        /\ order' = IF r.id = None THEN order ELSE Without(order, r.id[1])
        /\ run' = -1
        /\ last' = Call("try_acquire_id", <<>>, r.id, FALSE)
        /\ pre' = Snapshot
        /\ UNCHANGED <<ConfigVars, StorageVars, SharedVars>>

\* release_id(id), id drawn from S.
ReleaseIdFrom(S) ==
    \E id \in S :
        LET r == IdCache_release_id(Cache, id)
        IN  /\ top_id' = r.cache.top_id
            /\ free_ids' = r.cache.free_ids
            /\ held' = IF id \in held THEN held \ {id} ELSE held
            /\ order' = IF id \in held THEN Append(order, id) ELSE order
            /\ run' = -1
            /\ last' = Call("release_id", <<id>>, None, r.panicked)
            /\ pre' = Snapshot
            /\ UNCHANGED <<ConfigVars, StorageVars, SharedVars>>

\* release_ids(ids), ids a batch of pairwise distinct ids drawn from S.
ReleaseIdsFrom(S) ==
    \E ids \in SeqsOf(S, 0, MaxBatch) :
        /\ IsDistinct(ids)
        /\ LET r == IdCache_release_ids(Cache, ids)
               gone == HeldPrefix(ids, held)
           IN  /\ top_id' = r.cache.top_id
               /\ free_ids' = r.cache.free_ids
               /\ held' = held \ Range(gone)
               /\ order' = order \o gone
               /\ run' = -1
               /\ last' = Call("release_ids", ids, None, r.panicked)
               /\ pre' = Snapshot
               /\ UNCHANGED <<ConfigVars, StorageVars, SharedVars>>

\* Within the preconditions: only ids the caller holds are released.
ReleaseId == ReleaseIdFrom(held)
ReleaseIds == ReleaseIdsFrom(held)

\* reset(): every id issued before is invalid afterwards.
ResetOp ==
    LET c == IdCache_reset(Cache)
    IN  /\ top_id' = c.top_id
        /\ free_ids' = c.free_ids
        /\ held' = {}
        /\ order' = <<>>
        /\ run' = -1
        /\ last' = Call("reset", <<>>, None, FALSE)
        /\ pre' = Snapshot
        /\ UNCHANGED <<ConfigVars, StorageVars, SharedVars>>

Next == AcquireId \/ TryAcquireId \/ ReleaseId \/ ReleaseIds \/ ResetOp

Spec == Init /\ [][Next]_vars

\* The same allocator with calls outside the range precondition as well: an id
\* that is released is one the caller holds or one that is >= top_id.
OutOfRange == {i \in 0..MaxId : i >= top_id}

ReleaseIdAny == ReleaseIdFrom(held \cup OutOfRange)
ReleaseIdsAny == ReleaseIdsFrom(held \cup OutOfRange)

NextAbort == AcquireId \/ TryAcquireId \/ ReleaseIdAny \/ ReleaseIdsAny \/ ResetOp

SpecAbort == Init /\ [][NextAbort]_vars

\* ------------------------------------------------- claims about the IdCache
IsAcquire == last.op \in {"acquire_id", "try_acquire_id"} /\ last.ret # None

\* C1: an id returned by acquire_id or try_acquire_id is not held by the caller at
\* the time of the call (every released id being one the caller holds).
C1_NoDoubleIssue == IsAcquire => last.ret[1] \notin pre.held

\* C1's case: a released id is issued again while other ids are still held.
C1_Witness ==
    /\ IsAcquire
    /\ last.ret[1] \in Range(pre.free_ids)
    /\ pre.held # {}

\* C3: the free list holds no id >= top_id and no id twice, and the held ids
\* together with the free ids are exactly 0..top_id-1.
C3_FreeListInv ==
    /\ \A i \in DOMAIN free_ids : free_ids[i] < top_id
    /\ IsDistinct(free_ids)
    /\ held \cup Range(free_ids) = 0..(top_id - 1)

\* C3's case: a batch release has left several ids free while others are held.
C3_Witness ==
    /\ last.op = "release_ids"
    /\ Len(last.arg) >= 2
    /\ held # {}
    /\ Len(free_ids) >= 3

\* C4: with a free id, acquire_id returns the one released most recently among
\* those still free and leaves top_id alone; with none, it returns top_id and
\* adds 1 to it.
C4_StackOrder ==
    last.op = "acquire_id" =>
        IF pre.free_ids # <<>>
        THEN /\ last.ret = Some(pre.order[Len(pre.order)])
             /\ top_id = pre.top_id
        ELSE /\ last.ret = Some(pre.top_id)
             /\ top_id = pre.top_id + 1

\* C4's case: after acquiring 0, 1, 2 and releasing 2 then 1, acquire_id returns 1.
C4_Witness ==
    /\ cap = 0
    /\ last.op = "acquire_id"
    /\ pre.order = <<2, 1>>
    /\ pre.held = {0}
    /\ last.ret = Some(1)
    /\ free_ids = <<2>>
    /\ top_id = 3

\* C5: after with_capacity(n), the k-th acquire_id in a row (nothing else called)
\* returns k-1; top_id stays n for k <= n and becomes n+1 at k = n+1.
C5_CapacityRun ==
    (last.op = "acquire_id" /\ run >= 1 /\ run <= cap + 1) =>
        /\ last.ret = Some(run - 1)
        /\ top_id = IF run <= cap THEN cap ELSE cap + 1

\* C5's case: the (n+1)-th acquire_id after with_capacity(n), n >= 2.
C5_Witness ==
    /\ last.op = "acquire_id"
    /\ cap >= 2
    /\ run = cap + 1

\* C6: try_acquire_id returns None exactly when the free list is empty and then
\* changes nothing; Some(id) removes exactly id from the free list; top_id is
\* never changed.
C6_TryAcquire ==
    last.op = "try_acquire_id" =>
        /\ (last.ret = None) <=> (pre.free_ids = <<>>)
        /\ top_id = pre.top_id
        /\ last.ret = None => free_ids = pre.free_ids
        /\ last.ret # None =>
               /\ last.ret[1] \in Range(pre.free_ids)
               /\ Len(free_ids) = Len(pre.free_ids) - 1
               /\ free_ids = Without(pre.free_ids, last.ret[1])

\* C6's case: try_acquire_id fails on an allocator that has issued ids, none free.
C6_Witness ==
    /\ last.op = "try_acquire_id"
    /\ last.ret = None
    /\ pre.top_id >= 2

\* C7: release_id(id) with id >= top_id panics and leaves top_id and the free
\* list as they were.
C7_ReleaseIdAborts ==
    (last.op = "release_id" /\ last.arg[1] >= pre.top_id) =>
        /\ last.panicked
        /\ free_ids = pre.free_ids
        /\ top_id = pre.top_id

\* C7's case: an out-of-range release on an allocator with a non-empty free list.
C7_Witness ==
    /\ last.op = "release_id"
    /\ last.arg[1] >= pre.top_id
    /\ last.panicked
    /\ pre.free_ids # <<>>

\* C8: release_ids(ids) with some id >= top_id panics and leaves top_id and the
\* free list as they were before the call.
C8_ReleaseIdsAbortsClean ==
    (last.op = "release_ids" /\ \E i \in DOMAIN last.arg : last.arg[i] >= pre.top_id) =>
        /\ last.panicked
        /\ free_ids = pre.free_ids
        /\ top_id = pre.top_id

\* The ids n acquire_id calls in a row return, starting from cache c.
RECURSIVE AcquireRun(_, _)
AcquireRun(c, n) ==
    IF n = 0
    THEN <<>>
    ELSE LET r == IdCache_acquire_id(c)
         IN  <<r.id>> \o AcquireRun(r.cache, n - 1)

\* C19: after reset() the IdCache is in the state of IdCache::new(): top_id is 0
\* and the free list is empty, whatever the state before; try_acquire_id then
\* returns None and the acquire_id calls that follow return 0, 1, 2, ...
C19_ResetIsNew ==
    last.op = "reset" =>
        /\ Cache = IdCache_new
        /\ top_id = 0
        /\ free_ids = <<>>
        /\ IdCache_try_acquire_id(Cache).id = None
        /\ AcquireRun(Cache, MaxId) = [i \in 1..MaxId |-> i - 1]

\* C19's case: reset of a cache that had issued ids, some held and some free.
C19_Witness ==
    /\ last.op = "reset"
    /\ pre.top_id >= 2
    /\ pre.free_ids # <<>>
    /\ pre.held # {}
    /\ top_id = 0

\* ------------------------------------- CacheStorage (cache_storage.rs)
\* A CacheStorage value is the record [data, id_cache]; slot id of the Vec is
\* element id + 1 of the sequence.
CacheStorage_new == [data |-> <<>>, id_cache |-> IdCache_new]

\* Vec::with_capacity(capacity) reserves memory only: its length is 0.
CacheStorage_with_capacity(capacity) ==
    [data |-> <<>>, id_cache |-> IdCache_with_capacity(capacity)]

\* Mutant of insert_with_id: the value is pushed even when the slot exists.
CacheStorage_insert_with_id_push(s, id, new_data) ==
    IF id <= Len(s.data)
    THEN [storage |-> [s EXCEPT !.data = Append(s.data, new_data)], panicked |-> FALSE]
    ELSE [storage |-> s, panicked |-> TRUE]

\* Mutant of insert_with_id: an existing slot is indexed by len - 1, not by id.
CacheStorage_insert_with_id_last(s, id, new_data) ==
    IF id = Len(s.data)
    THEN [storage |-> [s EXCEPT !.data = Append(s.data, new_data)], panicked |-> FALSE]
    ELSE IF id < Len(s.data)
         THEN [storage |-> [s EXCEPT !.data[Len(s.data)] = new_data], panicked |-> FALSE]
         ELSE [storage |-> s, panicked |-> TRUE]

CacheStorage_insert_with_id(s, id, new_data) ==
    LET len == Len(s.data)
    IN  IF id = len
        THEN [storage |-> [s EXCEPT !.data = Append(s.data, new_data)], panicked |-> FALSE]
        ELSE IF id < len
             THEN [storage |-> [s EXCEPT !.data[id + 1] = new_data], panicked |-> FALSE]
             ELSE [storage |-> s, panicked |-> TRUE]

\* The id is acquired before insert_with_id runs: a panic there leaves it taken.
CacheStorage_insert(s, new_data) ==
    LET a == IdCache_acquire_id(s.id_cache)
        w == CacheStorage_insert_with_id([s EXCEPT !.id_cache = a.cache], a.id, new_data)
    IN  [storage |-> w.storage, id |-> a.id, panicked |-> w.panicked]

\* Mutant of try_insert: the id comes from acquire_id, which grows when no id is free.
CacheStorage_try_insert_grow(s, new_data) ==
    LET a == IdCache_acquire_id(s.id_cache)
        w == CacheStorage_insert_with_id([s EXCEPT !.id_cache = a.cache], a.id, new_data)
    IN  [storage |-> w.storage, id |-> Some(a.id), panicked |-> w.panicked]

CacheStorage_try_insert(s, new_data) ==
    LET a == IdCache_try_acquire_id(s.id_cache)
    IN  IF a.id = None
        THEN [storage |-> s, id |-> None, panicked |-> FALSE]
        ELSE LET w == CacheStorage_insert_with_id([s EXCEPT !.id_cache = a.cache],
                                                  a.id[1], new_data)
             IN  [storage |-> w.storage, id |-> a.id, panicked |-> w.panicked]

\* &self.data[id]: an index out of bounds panics.
CacheStorage_get(s, id) ==
    IF id < Len(s.data)
    THEN [value |-> Some(s.data[id + 1]), panicked |-> FALSE]
    ELSE [value |-> None, panicked |-> TRUE]

\* Mutant of remove: the slot is taken out of data as well (Vec::remove).
CacheStorage_remove_shift(s, id) ==
    LET r == IdCache_release_id(s.id_cache, id)
    IN  IF r.panicked
        THEN [storage |-> s, panicked |-> TRUE]
        ELSE [storage |-> [data |-> SubSeq(s.data, 1, id) \o
                                    SubSeq(s.data, id + 2, Len(s.data)),
                           id_cache |-> r.cache],
              panicked |-> FALSE]

CacheStorage_remove(s, id) ==
    LET r == IdCache_release_id(s.id_cache, id)
    IN  [storage |-> [s EXCEPT !.id_cache = r.cache], panicked |-> r.panicked]

CacheStorage_remove_chunk(s, ids) ==
    LET r == IdCache_release_ids(s.id_cache, ids)
    IN  [storage |-> [s EXCEPT !.id_cache = r.cache], panicked |-> r.panicked]

\* self.data.iter().enumerate(): every physical slot, removed ones included.
CacheStorage_iter(s) == [i \in 1..Len(s.data) |-> <<i - 1, s.data[i]>>]

CacheStorage_into_vec(s) == s.data

\* for item in iter { self.insert(item); }: the ids are collected for the ghost
\* state only; a panic of insert ends the loop.
RECURSIVE CacheStorage_extend_from(_, _, _)
CacheStorage_extend_from(s, items, ids) ==
    IF items = <<>>
    THEN [storage |-> s, ids |-> ids, panicked |-> FALSE]
    ELSE LET r == CacheStorage_insert(s, Head(items))
         IN  IF r.panicked
             THEN [storage |-> r.storage, ids |-> ids, panicked |-> TRUE]
             ELSE CacheStorage_extend_from(r.storage, Tail(items), Append(ids, r.id))

\* Mutant of extend: the values are appended to data (self.data.extend(iter)),
\* no id is acquired.
CacheStorage_extend_push(s, items) ==
    [storage |-> [s EXCEPT !.data = s.data \o items],
     ids |-> [i \in 1..Len(items) |-> Len(s.data) + i - 1],
     panicked |-> FALSE]

CacheStorage_extend(s, items) == CacheStorage_extend_from(s, items, <<>>)

\* ------------------------------------------------ dense storage: the calls
Storage == [data |-> data, id_cache |-> Cache]

\* ghost: the values written for the ids of a run of inserts.
RECURSIVE Written(_, _, _)
Written(lv, ids, items) ==
    IF ids = <<>>
    THEN lv
    ELSE Written((Head(ids) :> Head(items)) @@ lv, Tail(ids), Tail(items))

\* ghost: lv without the ids of S.
Dropped(lv, S) == [x \in (DOMAIN lv) \ S |-> lv[x]]

InitStorage(s, n, op) ==
    /\ InitCache(s.id_cache, n, op)
    /\ data = s.data
    /\ live = <<>>
    /\ direct = {}
    /\ SharedIdle

StorageNew == InitStorage(CacheStorage_new, 0, "new")

StorageWithCapacity ==
    \E n \in 0..MaxLen : InitStorage(CacheStorage_with_capacity(n), n, "with_capacity")

StorageInit == StorageNew \/ StorageWithCapacity

Max(a, b) == IF a >= b THEN a ELSE b

\* The model's bound on the growth of the storage: MaxLen, or the capacity it
\* was built with when that is larger.
InBounds(s) ==
    /\ s.id_cache.top_id <= Max(MaxLen, cap)
    /\ Len(s.data) <= Max(MaxLen, cap)
    /\ Len(s.id_cache.free_ids) <= Max(MaxLen, cap)

Becomes(s) ==
    /\ InBounds(s)
    /\ data' = s.data
    /\ top_id' = s.id_cache.top_id
    /\ free_ids' = s.id_cache.free_ids
    /\ pre' = Snapshot
    /\ UNCHANGED <<held, order, ConfigVars, run, SharedVars>>

Insert ==
    \E v \in Values :
        LET r == CacheStorage_insert(Storage, v)
        IN  /\ Becomes(r.storage)
            /\ live' = IF r.panicked THEN live ELSE (r.id :> v) @@ live
            /\ last' = Call("insert", <<v>>, Some(r.id), r.panicked)
            /\ UNCHANGED direct

TryInsert ==
    \E v \in Values :
        LET r == CacheStorage_try_insert(Storage, v)
        IN  /\ Becomes(r.storage)
            /\ live' = IF r.panicked \/ r.id = None THEN live ELSE (r.id[1] :> v) @@ live
            /\ last' = Call("try_insert", <<v>>, r.id, r.panicked)
            /\ UNCHANGED direct

Extend ==
    \E items \in SeqsOf(Values, 0, MaxBatch) :
        LET r == CacheStorage_extend(Storage, items)
        IN  /\ Becomes(r.storage)
            /\ live' = Written(live, r.ids, items)
            /\ last' = Call("extend", items, r.ids, r.panicked)
            /\ UNCHANGED direct

\* The ids remove and remove_chunk may be given: live, and not already released.
Removable == (DOMAIN live) \ Range(free_ids)

\* remove(id) of a live id.
Remove ==
    \E id \in Removable :
        LET r == CacheStorage_remove(Storage, id)
        IN  /\ Becomes(r.storage)
            /\ live' = IF r.panicked THEN live ELSE Dropped(live, {id})
            /\ last' = Call("remove", <<id>>, None, r.panicked)
            /\ direct' = IF r.panicked THEN direct ELSE direct \ {id}

\* remove_chunk(ids) of pairwise distinct live ids.
RemoveChunk ==
    \E ids \in SeqsOf(Removable, 0, MaxBatch) :
        /\ IsDistinct(ids)
        /\ LET r == CacheStorage_remove_chunk(Storage, ids)
               gone == HeldPrefix(ids, {i \in DOMAIN live : i < top_id})
           IN  /\ Becomes(r.storage)
               /\ live' = Dropped(live, Range(gone))
               /\ last' = Call("remove_chunk", ids, None, r.panicked)
               /\ direct' = direct \ Range(gone)

\* insert_with_id(id, v) called by the owner of the storage, not through insert.
InsertWithId ==
    \E id \in 0..MaxLen, v \in Values :
        LET r == CacheStorage_insert_with_id(Storage, id, v)
        IN  /\ Becomes(r.storage)
            /\ live' = IF r.panicked THEN live ELSE (id :> v) @@ live
            /\ direct' = IF ~r.panicked /\ id = Len(data) THEN direct \cup {id} ELSE direct
            /\ last' = Call("insert_with_id", <<id, v>>, None, r.panicked)

NextStorage == Insert \/ TryInsert \/ Extend \/ Remove \/ RemoveChunk

SpecStorage == StorageInit /\ [][NextStorage]_vars

NextStorageDirect ==
    Insert \/ TryInsert \/ Extend \/ Remove \/ RemoveChunk \/ InsertWithId

SpecStorageDirect == StorageInit /\ [][NextStorageDirect]_vars

\* A storage built by with_capacity(n) and used through try_insert and remove only.
PoolWithCapacity ==
    \E n \in 0..MaxPool : InitStorage(CacheStorage_with_capacity(n), n, "with_capacity")

NextPool == TryInsert \/ Remove

SpecPool == PoolWithCapacity /\ [][NextPool]_vars

\* remove(id) of an id that was removed before and has not been issued again.
RemoveReleased ==
    \E id \in {i \in Range(free_ids) : i < Len(data)} :
        LET r == CacheStorage_remove(Storage, id)
        IN  /\ Becomes(r.storage)
            /\ live' = live
            /\ last' = Call("remove", <<id>>, None, r.panicked)
            /\ UNCHANGED direct

NextStorageDouble ==
    Insert \/ TryInsert \/ Extend \/ Remove \/ RemoveChunk \/ RemoveReleased

SpecStorageDouble == StorageInit /\ [][NextStorageDouble]_vars

\* -------------------------------------------- claims about the dense storage
\* C9 as stated: the length of data equals top_id in every reachable state.
C9_LenEqualsTop == Len(data) = top_id

\* C9 as amended: for a storage constructed with capacity n (0 for new) and
\* mutated through insert, try_insert, extend, remove and remove_chunk, top_id is
\* the larger of n and data.len(), and the ids from data.len() up to top_id are
\* free ids seeded by with_capacity and not issued yet. Hence data.len() equals
\* top_id for a storage made by new, and after n inserts for with_capacity(n).
C9_TopIsMaxOfCapAndLen ==
    /\ top_id = Max(cap, Len(data))
    /\ \A id \in Len(data)..(top_id - 1) : id \in Range(free_ids)

\* C9's case: a with_capacity(2) storage that holds one value and has seen a remove.
C9_Witness ==
    /\ cap = 2
    /\ Len(data) = 1
    /\ top_id = 2
    /\ last.op = "remove"

IsInsert == last.op \in {"insert", "try_insert", "extend"}

\* C10: get(id) of every live id yields the value last written for it, and an
\* insert (insert, try_insert, extend) never returns an id that is live.
C10_LiveReadsBack ==
    /\ \A id \in DOMAIN live :
           CacheStorage_get(Storage, id) = [value |-> Some(live[id]), panicked |-> FALSE]
    /\ IsInsert =>
           /\ IsDistinct(last.ret)
           /\ Range(last.ret) \cap DOMAIN pre.live = {}

\* C10's case: insert reuses the slot of a removed id for another value while
\* another id is live.
C10_Witness ==
    /\ last.op = "insert"
    /\ ~last.panicked
    /\ last.ret[1] < Len(pre.data)
    /\ pre.data[last.ret[1] + 1] # last.arg[1]
    /\ DOMAIN pre.live # {}
    /\ CacheStorage_get(Storage, last.ret[1]).value = Some(last.arg[1])

\* C11: in every state the id the allocator would hand out next is at most
\* data.len(), and no insert, try_insert or extend has ended in the abort branch
\* of insert_with_id.
C11_AllocatedIdInRange ==
    /\ IdCache_acquire_id(Cache).id <= Len(data)
    /\ IsInsert => ~last.panicked

\* C11's case: a with_capacity(2) storage whose free list held a released id on
\* top of a seeded id that was never issued, and insert took the released one.
C11_Witness ==
    /\ cap = 2
    /\ last.op = "insert"
    /\ ~last.panicked
    /\ Len(pre.data) = 1
    /\ pre.free_ids = <<1, 0>>
    /\ last.ret = Some(0)

\* C12: remove(id) pushes id onto the free list and changes nothing else: data
\* keeps its length and every value, get(id) and iter still yield the stale
\* value at id; and a slot of data changes only in an insert call that returns
\* the id of that slot.
C12_RemoveKeepsData ==
    /\ (last.op = "remove" /\ ~last.panicked) =>
           LET id == last.arg[1]
           IN  /\ data = pre.data
               /\ top_id = pre.top_id
               /\ free_ids = Append(pre.free_ids, id)
               /\ CacheStorage_get(Storage, id) =
                      [value |-> Some(pre.data[id + 1]), panicked |-> FALSE]
               /\ CacheStorage_iter(Storage)[id + 1] = <<id, pre.data[id + 1]>>
               /\ Len(CacheStorage_iter(Storage)) = Len(pre.data)
    /\ Len(data) >= Len(pre.data)
    /\ \A i \in 1..Len(pre.data) :
           data[i] # pre.data[i] => IsInsert /\ (i - 1) \in Range(last.ret)

\* C12's case: remove of the first of two stored values; the removed value is
\* still read back by get.
C12_Witness ==
    /\ last.op = "remove"
    /\ ~last.panicked
    /\ last.arg = <<0>>
    /\ Len(data) = 2
    /\ 0 \notin DOMAIN live
    /\ 1 \in DOMAIN live
    /\ CacheStorage_get(Storage, 0).value = Some(pre.live[0])

\* The storage and the ids that result from one insert call per value, in order.
RECURSIVE InsertEach(_, _, _)
InsertEach(s, items, ids) ==
    IF items = <<>>
    THEN [storage |-> s, ids |-> ids]
    ELSE LET r == CacheStorage_insert(s, Head(items))
         IN  InsertEach(r.storage, Tail(items), Append(ids, r.id))

\* The ids n inserts are due: the free ids from the top of the stack down, then
\* fresh ids from top on.
ExpectedIds(free, top, n) ==
    [i \in 1..n |-> IF i <= Len(free)
                    THEN free[Len(free) - i + 1]
                    ELSE top + (i - Len(free) - 1)]

Min(a, b) == IF a <= b THEN a ELSE b

\* C13: extend(values) leaves the storage that one insert per value, in iteration
\* order, leaves when started from the same state (same data, top_id and free
\* list), and gives the values the same ids: the recycled ids in stack order
\* first, then fresh ids.
C13_ExtendIsRepeatedInsert ==
    last.op = "extend" =>
        LET s0 == [data |-> pre.data,
                   id_cache |-> [top_id |-> pre.top_id, free_ids |-> pre.free_ids]]
            each == InsertEach(s0, last.arg, <<>>)
            n == Len(last.arg)
            k == Min(n, Len(pre.free_ids))
        IN  /\ ~last.panicked
            /\ Storage = each.storage
            /\ last.ret = each.ids
            /\ last.ret = ExpectedIds(pre.free_ids, pre.top_id, n)
            /\ \A i \in 1..n : data[last.ret[i] + 1] = last.arg[i]
            /\ top_id = pre.top_id + (n - k)
            /\ free_ids = SubSeq(pre.free_ids, 1, Len(pre.free_ids) - k)

\* C13's case: extend of two different values on a storage with one free id: the
\* first value takes the recycled id, the second a fresh one.
C13_Witness ==
    /\ last.op = "extend"
    /\ Len(last.arg) = 2
    /\ last.arg[1] # last.arg[2]
    /\ pre.free_ids = <<0>>
    /\ pre.top_id = 1
    /\ last.ret = <<0, 1>>
    /\ data = last.arg

\* C14: a with_capacity(n) storage used through try_insert and remove is a pool
\* of n slots: try_insert returns Some exactly when fewer than n ids are live,
\* a None leaves data and allocator as they were, a try_insert right after a
\* remove succeeds, and data.len() never exceeds n.
C14_FixedPool ==
    /\ Len(data) <= cap
    /\ top_id = cap
    /\ last.op = "try_insert" =>
           /\ ~last.panicked
           /\ last.ret # None <=> Cardinality(DOMAIN pre.live) < cap
           /\ last.ret = None =>
                  /\ data = pre.data
                  /\ top_id = pre.top_id
                  /\ free_ids = pre.free_ids
    /\ (last.op = "remove" /\ ~last.panicked) =>
           \A v \in Values : CacheStorage_try_insert(Storage, v).id # None

\* C14's case: a full pool of two slots refuses a try_insert.
C14_Witness ==
    /\ cap = 2
    /\ last.op = "try_insert"
    /\ last.ret = None
    /\ Cardinality(DOMAIN live) = 2
    /\ Len(data) = 2

\* C20 as stated: remove(id) of an id that is already released panics and does
\* not push id onto the free list a second time.
C20_DoubleRemovePanics ==
    (last.op = "remove" /\ last.arg[1] \in Range(pre.free_ids)) =>
        /\ last.panicked
        /\ free_ids = pre.free_ids

\* ------------------------- ShrinkableStorage (shrinkable_storage.rs)
\* A ShrinkableStorage value is the record [data, free_ids]; free_ids is a
\* BTreeSet<Id>, a set here, iterated in the order of the ids.
ShrinkableStorage_new == [data |-> <<>>, free_ids |-> {}]

\* Vec::with_capacity(capacity) reserves memory only: its length is 0.
ShrinkableStorage_with_capacity(capacity) == [data |-> <<>>, free_ids |-> {}]

ShrinkableStorage_volume(s) == Len(s.data)

ShrinkableStorage_is_empty(s) == Len(s.data) = 0

\* Mutant of insert: a freed slot is reused when there is one.
ShrinkableStorage_insert_reuse(s, obj) ==
    IF s.free_ids # {} /\ (CHOOSE i \in s.free_ids : TRUE) < Len(s.data)
    THEN LET id == CHOOSE i \in s.free_ids : TRUE
         IN  [storage |-> [data |-> [s.data EXCEPT ![id + 1] = obj],
                           free_ids |-> s.free_ids \ {id}],
              id |-> id]
    ELSE [storage |-> [s EXCEPT !.data = Append(s.data, obj)], id |-> Len(s.data)]

ShrinkableStorage_insert(s, obj) ==
    LET id == Len(s.data)
    IN  [storage |-> [s EXCEPT !.data = Append(s.data, obj)], id |-> id]

\* &self.data[id]: an index out of bounds panics.
ShrinkableStorage_get(s, id) ==
    IF id < Len(s.data)
    THEN [value |-> Some(s.data[id + 1]), panicked |-> FALSE]
    ELSE [value |-> None, panicked |-> TRUE]

\* *storage.get_mut(id) = obj
ShrinkableStorage_get_mut(s, id, obj) ==
    IF id < Len(s.data)
    THEN [storage |-> [s EXCEPT !.data[id + 1] = obj], panicked |-> FALSE]
    ELSE [storage |-> s, panicked |-> TRUE]

\* debug_assert!(cond) panics when cond is false and debug assertions are
\* compiled in; otherwise it does nothing.
DebugAssertFails(cond) == debug_assertions /\ ~cond

ShrinkableStorage_free_id(s, id) ==
    IF DebugAssertFails(id < Len(s.data))
    THEN [storage |-> s, panicked |-> TRUE]
    ELSE [storage |-> [s EXCEPT !.free_ids = s.free_ids \cup {id}], panicked |-> FALSE]

\* self.free_ids.extend(ids.inspect(|&id| debug_assert!(id < last_id))): each id
\* is checked when the iterator yields it, then inserted; a panic ends the call
\* with the ids before it inserted.
RECURSIVE ExtendInspectSet(_, _, _)
ExtendInspectSet(free, ids, last_id) ==
    IF ids = <<>>
    THEN [free_ids |-> free, panicked |-> FALSE]
    ELSE IF DebugAssertFails(Head(ids) < last_id)
         THEN [free_ids |-> free, panicked |-> TRUE]
         ELSE ExtendInspectSet(free \cup {Head(ids)}, Tail(ids), last_id)

ShrinkableStorage_free_ids(s, ids) ==
    LET last_id == Len(s.data)
        r == ExtendInspectSet(s.free_ids, ids, last_id)
    IN  [storage |-> [s EXCEPT !.free_ids = r.free_ids], panicked |-> r.panicked]

ShrinkableStorage_is_id_free(s, id) == id \in s.free_ids

\* self.data.retain(predicate): keep holds the values the predicate accepts.
ShrinkableStorage_retain(s, keep) ==
    [s EXCEPT !.data = SelectSeq(s.data, LAMBDA v : v \in keep)]

ShrinkableStorage_restore_freed(s) == [s EXCEPT !.free_ids = {}]

ShrinkableStorage_iter(s) == [i \in 1..Len(s.data) |-> <<i - 1, s.data[i]>>]

ShrinkableStorage_iter_ids(s) == [i \in 1..Len(s.data) |-> i - 1]

\* Mutant of swap_remove: Vec::remove(id), the elements behind id move down by one.
SwapRemove_shift(d, id) ==
    IF id >= Len(d)
    THEN [data |-> d, panicked |-> TRUE]
    ELSE [data |-> [i \in 1..(Len(d) - 1) |-> IF i <= id THEN d[i] ELSE d[i + 1]],
          panicked |-> FALSE]

\* Vec::swap_remove(id): panics when id >= len; otherwise the last element takes
\* the place of element id and the Vec gets shorter by one.
SwapRemove(d, id) ==
    IF id >= Len(d)
    THEN [data |-> d, panicked |-> TRUE]
    ELSE LET front == SubSeq(d, 1, Len(d) - 1)
         IN  [data |-> IF id + 1 = Len(d) THEN front
                       ELSE [front EXCEPT ![id + 1] = d[Len(d)]],
              panicked |-> FALSE]

SetMax(S) == CHOOSE x \in S : \A y \in S : y <= x
SetMin(S) == CHOOSE x \in S : \A y \in S : x <= y

\* Mutant of the loop of shrink: the ids are taken from the lowest up (iter.next()).
RECURSIVE SwapRemoveFront(_, _)
SwapRemoveFront(d, ids) ==
    IF ids = {}
    THEN [data |-> d, panicked |-> FALSE]
    ELSE LET id == SetMin(ids)
             r == SwapRemove(d, id)
         IN  IF r.panicked THEN r ELSE SwapRemoveFront(r.data, ids \ {id})

\* while let Some(&id) = iter.next_back() { storage.data.swap_remove(id); }
RECURSIVE SwapRemoveBack(_, _)
SwapRemoveBack(d, ids) ==
    IF ids = {}
    THEN [data |-> d, panicked |-> FALSE]
    ELSE LET id == SetMax(ids)
             r == SwapRemove(d, id)
         IN  IF r.panicked THEN r ELSE SwapRemoveBack(r.data, ids \ {id})

\* Mutant of shrink: the storage itself is compacted and returned (no clone).
ShrinkableStorage_shrink_in_place(s) ==
    LET r == SwapRemoveBack(s.data, s.free_ids)
    IN  IF r.panicked
        THEN [self |-> s, ret |-> None, panicked |-> TRUE]
        ELSE [self |-> [data |-> r.data, free_ids |-> {}],
              ret |-> Some([data |-> r.data, free_ids |-> {}]), panicked |-> FALSE]

\* shrink(&self): the work is done on a clone, self stays as it is; a panic of
\* swap_remove ends the call without a result.
ShrinkableStorage_shrink(s) ==
    LET storage == s
        r == SwapRemoveBack(storage.data, storage.free_ids)
    IN  IF r.panicked
        THEN [self |-> s, ret |-> None, panicked |-> TRUE]
        ELSE [self |-> s,
              ret |-> Some([data |-> r.data, free_ids |-> {}]), panicked |-> FALSE]

\* impl Extend: self.data.extend(iter)
ShrinkableStorage_extend(s, items) == [s EXCEPT !.data = s.data \o items]

\* ------------------------------------------ shrinkable storage: the calls
\* data holds ShrinkableStorage.data and free_ids holds the BTreeSet, as a set.
Shrinkable == [data |-> data, free_ids |-> free_ids]

\* The ids a caller may pass: those of the storage and some past its end.
VolIds == 0..MaxVol

InitShrinkable(s, n, op) ==
    /\ data = s.data
    /\ free_ids = s.free_ids
    /\ top_id = 0
    /\ held = {}
    /\ order = <<>>
    /\ live = <<>>
    /\ direct = {}
    /\ cap = n
    /\ run = 0
    /\ debug_assertions \in BOOLEAN
    /\ last = Call(op, <<>>, None, FALSE)
    /\ pre = [top_id |-> 0, free_ids |-> s.free_ids, data |-> s.data,
              held |-> {}, order |-> <<>>, live |-> <<>>]
    /\ SharedIdle

ShrinkableNew == InitShrinkable(ShrinkableStorage_new, 0, "new")

\* The capacity reserves memory only; the smallest and the largest are tried.
ShrinkableWithCapacity ==
    \E n \in {1, MaxVol} :
        InitShrinkable(ShrinkableStorage_with_capacity(n), n, "with_capacity")

ShrinkableInit == ShrinkableNew \/ ShrinkableWithCapacity

ShrinkableBecomes(s) ==
    /\ Len(s.data) <= MaxVol
    /\ data' = s.data
    /\ free_ids' = s.free_ids
    /\ pre' = Snapshot
    /\ UNCHANGED <<top_id, held, order, live, direct, ConfigVars, run, SharedVars>>

\* The storage never looks at a value (T is unconstrained), so the values are
\* told apart by making the k-th value stored the number k.
NextValues(n) == [i \in 1..n |-> Len(data) + i]

VolValues == 1..MaxVol

ShrinkableInsert ==
    LET v == NextValues(1)[1]
        r == ShrinkableStorage_insert(Shrinkable, v)
    IN  /\ ShrinkableBecomes(r.storage)
        /\ last' = Call("insert", <<v>>, Some(r.id), FALSE)

ShrinkableExtend ==
    \E n \in 0..MaxBatch :
        LET items == NextValues(n)
        IN  /\ ShrinkableBecomes(ShrinkableStorage_extend(Shrinkable, items))
            /\ last' = Call("extend", items, None, FALSE)

FreeId ==
    \E id \in VolIds :
        LET r == ShrinkableStorage_free_id(Shrinkable, id)
        IN  /\ ShrinkableBecomes(r.storage)
            /\ last' = Call("free_id", <<id>>, None, r.panicked)

\* free_ids(ids), ids a batch of pairwise distinct ids (the set would drop a
\* repeated id).
FreeIds ==
    \E ids \in SeqsOf(VolIds, 0, MaxBatch) :
        /\ IsDistinct(ids)
        /\ LET r == ShrinkableStorage_free_ids(Shrinkable, ids)
           IN  /\ ShrinkableBecomes(r.storage)
               /\ last' = Call("free_ids", ids, None, r.panicked)

RestoreFreed ==
    /\ ShrinkableBecomes(ShrinkableStorage_restore_freed(Shrinkable))
    /\ last' = Call("restore_freed", <<>>, None, FALSE)

\* shrink(): the new storage is kept in last.ret.
Shrink ==
    LET r == ShrinkableStorage_shrink(Shrinkable)
    IN  /\ ShrinkableBecomes(r.self)
        /\ last' = Call("shrink", <<>>, r.ret, r.panicked)

NextShrinkable ==
    \/ ShrinkableInsert
    \/ ShrinkableExtend
    \/ FreeId
    \/ FreeIds
    \/ RestoreFreed
    \/ Shrink

SpecShrinkable == ShrinkableInit /\ [][NextShrinkable]_vars

\* ------------------------------------ claims about the shrinkable storage
InRange(F, d) == \A id \in F : id < Len(d)

C16_FreeOutOfRangeAborts ==
    /\ InRange(free_ids, data)
    /\ (last.op = "free_id" /\ last.arg[1] >= Len(pre.data)) => last.panicked
    /\ (last.op = "free_ids" /\ \E i \in DOMAIN last.arg : last.arg[i] >= Len(pre.data))
           => last.panicked

\* How often v occurs in d.
CountOf(d, v) == Cardinality({i \in DOMAIN d : d[i] = v})

\* C17: shrink() of a storage whose free ids are all < volume returns a storage
\* that holds each value of a non-free id of the source exactly as often as the
\* source holds it at non-free ids (so no freed value as such), whose volume is
\* the volume of the source less the number of free ids, whose ids are
\* 0..volume-1, and whose free set is empty.
C17_ShrinkKeepsSurvivors ==
    (last.op = "shrink" /\ InRange(pre.free_ids, pre.data)) =>
        /\ ~last.panicked
        /\ last.ret # None
        /\ LET new == last.ret[1]
           IN  /\ \A v \in VolValues :
                      CountOf(new.data, v) =
                          Cardinality({i \in DOMAIN pre.data :
                                          pre.data[i] = v /\ (i - 1) \notin pre.free_ids})
               /\ ShrinkableStorage_volume(new) = Len(pre.data) - Cardinality(pre.free_ids)
               /\ Range(ShrinkableStorage_iter_ids(new)) =
                      0..(ShrinkableStorage_volume(new) - 1)
               /\ new.free_ids = {}

\* C17's case: a storage of three values, the first and the last of them freed
\* and different from the middle one.
C17_Witness ==
    /\ last.op = "shrink"
    /\ ~last.panicked
    /\ Len(pre.data) = 3
    /\ pre.free_ids = {0, 2}
    /\ pre.data[2] \notin {pre.data[1], pre.data[3]}
    /\ last.ret = Some([data |-> <<pre.data[2]>>, free_ids |-> {}])

\* C18: shrink() leaves the storage it is called on as it was: the same data, the
\* same free set, and every old id still reads its value.
C18_ShrinkKeepsSource ==
    last.op = "shrink" =>
        /\ data = pre.data
        /\ free_ids = pre.free_ids
        /\ \A id \in 0..(Len(pre.data) - 1) :
               ShrinkableStorage_get(Shrinkable, id) =
                   [value |-> Some(pre.data[id + 1]), panicked |-> FALSE]

\* C18's case: a shrink that returned a smaller storage while the source kept
\* its two values and its free id.
C18_Witness ==
    /\ last.op = "shrink"
    /\ ~last.panicked
    /\ Len(data) = 2
    /\ free_ids = {0}
    /\ Len(last.ret[1].data) = 1

\* ------------------------------ shared-access IdCache (lib.rs): the steps
\* top_id is an AtomicUsize: a load, a store and a fetch_add are one step each.
\* free_ids is behind an RwLock: a call takes the write guard in one step (when no
\* thread holds it) and, in its next step, works on the Vec and drops the guard
\* (the guard is a temporary of the statement that took it).

\* Mutant of fetch_add: the old value is returned and nothing is added.
Shared_fetch_add_lost(top) == [top_id |-> top, id |-> top]

\* self.top_id.fetch_add(1, Ordering::AcqRel)
Shared_fetch_add(top) == [top_id |-> top + 1, id |-> top]

\* Mutant of the pop: it reports None and leaves the list as it is.
Shared_pop_none(free) == [free_ids |-> free, id |-> None]

\* self.free_ids.write().unwrap().pop()
Shared_pop(free) ==
    IF Len(free) = 0
    THEN [free_ids |-> free, id |-> None]
    ELSE [free_ids |-> SubSeq(free, 1, Len(free) - 1), id |-> Some(free[Len(free)])]

\* self.free_ids.write().unwrap().push(id)
Shared_push(free, id) == Append(free, id)

\* self.top_id.store(0, Ordering::Release)
Shared_store_zero(top) == 0

\* self.free_ids.write().unwrap().clear()
Shared_clear(free) == <<>>

\* self.free_ids.read().unwrap().len()
Shared_len(free) == Len(free)

DropGuard_leak(holder) == holder

\* The write guard, a temporary of the statement (a local of release_ids), is
\* dropped: normally or while a panic unwinds. No thread holds the lock then.
DropGuard(holder) == 0

\* ghost: thread t holds id once more / once less.
Gain(t, id) == [owned EXCEPT ![t][id] = @ + 1]
Lose(t, id) == [owned EXCEPT ![t][id] = @ - 1]

\* ghost: thread t took the top entry of the free list, if there was one.
Popped(t) ==
    IF free_ids = <<>>
    THEN UNCHANGED <<pusher, handoff>>
    ELSE /\ pusher' = 0
         /\ handoff' = (handoff \/ pusher \notin {0, t})

\* ghost: a pop by thread t.
TrackPop(t) ==
    track' = [track EXCEPT !.raced = @ \ {t}]

\* ghost: a push is seen by the threads that wait to do their fetch_add.
TrackPush ==
    track' = [track EXCEPT !.raced = @ \cup {u \in Threads : pc[u] = "acquire_fetch"}]

Holders(id) == {t \in Threads : owned[t][id] > 0}

\* How often id occurs in the free list.
FreeCount(id) == Cardinality({i \in DOMAIN free_ids : free_ids[i] = id})

\* ghost: no id is held twice, or held and free, or free twice. Where reset()
\* is among the calls, a behaviour is followed until this fails: no call is
\* entered any more, the calls under way run to their end.
IssuedOnce ==
    \A id \in SharedIds :
        /\ \A t \in Threads : owned[t][id] <= 1
        /\ Cardinality(Holders(id)) + FreeCount(id) <= 1

SingleOwnerVars == <<data, live, direct, held, order, ConfigVars, run, last, pre>>

SharedNew ==
    /\ InitCache(IdCache_new, 0, "new")
    /\ StorageIdle
    /\ SharedIdle

SharedWithCapacity ==
    /\ \E n \in 0..MaxSharedCap : InitCache(IdCache_with_capacity(n), n, "with_capacity")
    /\ StorageIdle
    /\ SharedIdle

SharedInit == SharedNew \/ SharedWithCapacity

\* The threads inside acquire_id.
Acquiring == {u \in Threads : pc[u] \in {"acquire_lock", "acquire_pop", "acquire_fetch"}}

\* A thread enters acquire_id or try_acquire_id: it will ask for the write guard.
\* acquire_id is entered only while the calls under way leave top_id within the
\* model's bound, so that no call is held up by the bound.
CallAcquire(t) ==
    /\ pc[t] = "idle"
    /\ top_id + Cardinality(Acquiring) < MaxSharedId
    /\ pc' = [pc EXCEPT ![t] = "acquire_lock"]
    /\ UNCHANGED <<top_id, free_ids, lock, loc, owned, pusher, handoff, SingleOwnerVars,
                   RwVars, track>>

CallTryAcquire(t) ==
    /\ pc[t] = "idle"
    /\ pc' = [pc EXCEPT ![t] = "try_lock"]
    /\ UNCHANGED <<top_id, free_ids, lock, loc, owned, pusher, handoff, SingleOwnerVars,
                   RwVars, track>>

\* A thread enters release_id(id) with an id it holds, and gives it up.
CallRelease(t) ==
    \E id \in SharedIds :
        /\ pc[t] = "idle"
        /\ owned[t][id] > 0
        /\ pc' = [pc EXCEPT ![t] = "release_load"]
        /\ loc' = [loc EXCEPT ![t] = id]
        /\ owned' = Lose(t, id)
        /\ UNCHANGED <<top_id, free_ids, lock, pusher, handoff, SingleOwnerVars,
                       RwVars, track>>

\* free_ids.write().unwrap(): the guard is granted when no thread holds a write
\* or a read guard; on a poisoned lock write() returns Err, unwrap() panics and
\* the guard inside the error is dropped at once.
TakeLock(t) ==
    /\ pc[t] \in {"acquire_lock", "try_lock", "release_lock", "batch_lock", "reset_lock"}
    /\ lock = 0
    /\ readers = {}
    /\ IF poisoned
       THEN /\ pc' = [pc EXCEPT ![t] = "idle"]
            /\ loc' = [loc EXCEPT ![t] = 0]
            /\ batch' = [batch EXCEPT ![t] = <<>>]
            /\ UNCHANGED lock
       ELSE /\ lock' = t
            /\ pc' = [pc EXCEPT ![t] = CASE pc[t] = "acquire_lock" -> "acquire_pop"
                                          [] pc[t] = "try_lock" -> "try_pop"
                                          [] pc[t] = "release_lock" -> "release_push"
                                          [] pc[t] = "batch_lock" -> "batch_push"
                                          [] OTHER -> "reset_clear"]
            /\ UNCHANGED <<loc, batch>>
    /\ UNCHANGED <<top_id, free_ids, owned, pusher, handoff, SingleOwnerVars,
                   readers, poisoned, track>>

\* acquire_id: the pop of try_acquire_id; Some(id) is returned, None goes on to
\* the fetch_add.
AcquirePop(t) ==
    /\ pc[t] = "acquire_pop"
    /\ lock = t
    /\ LET r == Shared_pop(free_ids)
       IN  /\ free_ids' = r.free_ids
           /\ lock' = DropGuard(lock)
           /\ IF r.id = None
              THEN /\ pc' = [pc EXCEPT ![t] = "acquire_fetch"]
                   /\ UNCHANGED owned
              ELSE /\ pc' = [pc EXCEPT ![t] = "idle"]
                   /\ owned' = Gain(t, r.id[1])
    /\ Popped(t)
    /\ TrackPop(t)
    /\ UNCHANGED <<top_id, loc, SingleOwnerVars, RwVars>>

AcquireFetchAdd(t) ==
    /\ pc[t] = "acquire_fetch"
    /\ top_id < MaxSharedId
    /\ LET r == Shared_fetch_add(top_id)
       IN  /\ top_id' = r.top_id
           /\ owned' = Gain(t, r.id)
    /\ pc' = [pc EXCEPT ![t] = "idle"]
    /\ track' = [track EXCEPT !.raced = @ \ {t}]
    /\ UNCHANGED <<free_ids, lock, loc, pusher, handoff, SingleOwnerVars, RwVars>>

\* try_acquire_id: the pop, whose result is returned as it is.
TryPop(t) ==
    /\ pc[t] = "try_pop"
    /\ lock = t
    /\ LET r == Shared_pop(free_ids)
       IN  /\ free_ids' = r.free_ids
           /\ lock' = DropGuard(lock)
           /\ owned' = IF r.id = None THEN owned ELSE Gain(t, r.id[1])
    /\ Popped(t)
    /\ TrackPop(t)
    /\ pc' = [pc EXCEPT ![t] = "idle"]
    /\ UNCHANGED <<top_id, loc, SingleOwnerVars, RwVars>>

\* release_id: assert!(id < self.top_id.load(Acquire)); a failed assert panics
\* before the guard is asked for.
ReleaseLoad(t) ==
    /\ pc[t] = "release_load"
    /\ pc' = [pc EXCEPT ![t] = IF loc[t] < top_id THEN "release_lock" ELSE "idle"]
    /\ loc' = [loc EXCEPT ![t] = IF loc[t] < top_id THEN loc[t] ELSE 0]
    /\ UNCHANGED <<top_id, free_ids, lock, owned, pusher, handoff, SingleOwnerVars,
                   RwVars, track>>

ReleasePush(t) ==
    /\ pc[t] = "release_push"
    /\ lock = t
    /\ free_ids' = Shared_push(free_ids, loc[t])
    /\ lock' = DropGuard(lock)
    /\ pc' = [pc EXCEPT ![t] = "idle"]
    /\ loc' = [loc EXCEPT ![t] = 0]
    /\ pusher' = IF handoff THEN 0 ELSE t
    /\ TrackPush
    /\ UNCHANGED <<top_id, owned, handoff, SingleOwnerVars, RwVars>>

SharedNext ==
    \E t \in Threads :
        \/ CallAcquire(t)
        \/ CallTryAcquire(t)
        \/ CallRelease(t)
        \/ TakeLock(t)
        \/ AcquirePop(t)
        \/ AcquireFetchAdd(t)
        \/ TryPop(t)
        \/ ReleaseLoad(t)
        \/ ReleasePush(t)

SpecShared == SharedInit /\ [][SharedNext]_vars

\* ---------------- shared-access IdCache: release_ids, reset and free_ids_num
\* ghost: thread t gives up the ids of the batch that it holds.
RECURSIVE LoseAll(_, _, _)
LoseAll(o, t, ids) ==
    IF ids = <<>>
    THEN o
    ELSE LoseAll(IF o[t][Head(ids)] > 0 THEN [o EXCEPT ![t][Head(ids)] = @ - 1] ELSE o,
                 t, Tail(ids))

\* A thread enters release_ids(ids) with a batch of pairwise distinct ids, each
\* of them an id it holds or an id that is not below top_id.
CallReleaseIds(t) ==
    \E ids \in SeqsOf(SharedIds, 0, MaxBatch) :
        /\ pc[t] = "idle"
        /\ IsDistinct(ids)
        /\ \A i \in DOMAIN ids : owned[t][ids[i]] > 0 \/ ids[i] >= top_id
        /\ pc' = [pc EXCEPT ![t] = "batch_lock"]
        /\ batch' = [batch EXCEPT ![t] = ids]
        /\ owned' = LoseAll(owned, t, ids)
        /\ UNCHANGED <<top_id, free_ids, lock, loc, pusher, handoff, SingleOwnerVars,
                       readers, poisoned, track>>

\* release_ids, with the write guard: the iterator yields the next id, the
\* closure asserts id < top_id.load(Acquire) and extend pushes the id. A failed
\* assert panics: the guard is dropped during unwinding and the lock is
\* poisoned. After the last id the guard is dropped.
BatchPush(t) ==
    /\ pc[t] = "batch_push"
    /\ lock = t
    /\ IF batch[t] = <<>>
       THEN /\ lock' = DropGuard(lock)
            /\ pc' = [pc EXCEPT ![t] = "idle"]
            /\ UNCHANGED <<free_ids, batch, poisoned, pusher, track>>
       ELSE IF Head(batch[t]) < top_id
            THEN /\ free_ids' = Shared_push(free_ids, Head(batch[t]))
                 /\ batch' = [batch EXCEPT ![t] = Tail(@)]
                 /\ lock' = IF Tail(batch[t]) = <<>> THEN DropGuard(lock) ELSE t
                 /\ pc' = [pc EXCEPT ![t] = IF Tail(batch[t]) = <<>> THEN "idle" ELSE @]
                 /\ pusher' = IF handoff THEN 0 ELSE t
                 /\ TrackPush
                 /\ UNCHANGED poisoned
            ELSE /\ poisoned' = TRUE
                 /\ lock' = DropGuard(lock)
                 /\ pc' = [pc EXCEPT ![t] = "idle"]
                 /\ batch' = [batch EXCEPT ![t] = <<>>]
                 /\ UNCHANGED <<free_ids, pusher, track>>
    /\ UNCHANGED <<top_id, loc, owned, handoff, SingleOwnerVars, readers>>

\* A thread enters reset().
CallReset(t) ==
    /\ pc[t] = "idle"
    /\ track.resets < MaxResets
    /\ pc' = [pc EXCEPT ![t] = "reset_store"]
    /\ track' = [track EXCEPT !.resets = @ + 1]
    /\ UNCHANGED <<top_id, free_ids, lock, loc, owned, pusher, handoff, SingleOwnerVars,
                   RwVars>>

\* reset: top_id.store(0, Release), before the guard is asked for. Every id
\* issued so far is invalid from here on.
ResetStore(t) ==
    /\ pc[t] = "reset_store"
    /\ top_id' = Shared_store_zero(top_id)
    /\ pc' = [pc EXCEPT ![t] = "reset_lock"]
    /\ owned' = [u \in Threads |-> [i \in SharedIds |-> 0]]
    /\ UNCHANGED <<free_ids, lock, loc, pusher, handoff, SingleOwnerVars, RwVars, track>>

\* reset, with the write guard: the free list is cleared and the guard dropped.
ResetClear(t) ==
    /\ pc[t] = "reset_clear"
    /\ lock = t
    /\ free_ids' = Shared_clear(free_ids)
    /\ lock' = DropGuard(lock)
    /\ pc' = [pc EXCEPT ![t] = "idle"]
    /\ pusher' = 0
    /\ UNCHANGED <<top_id, loc, owned, handoff, SingleOwnerVars, RwVars, track>>

\* A thread enters free_ids_num().
CallFreeIdsNum(t) ==
    /\ pc[t] = "idle"
    /\ pc' = [pc EXCEPT ![t] = "num_lock"]
    /\ UNCHANGED <<top_id, free_ids, lock, loc, owned, pusher, handoff, SingleOwnerVars,
                   RwVars, track>>

\* free_ids.read().unwrap(): a read guard is granted when no thread holds the
\* write guard (whether a waiting writer keeps readers out is up to the
\* platform: both are allowed here); on a poisoned lock unwrap() panics.
TakeRead(t) ==
    /\ pc[t] = "num_lock"
    /\ lock = 0
    /\ IF poisoned
       THEN /\ pc' = [pc EXCEPT ![t] = "idle"]
            /\ UNCHANGED readers
       ELSE /\ pc' = [pc EXCEPT ![t] = "num_len"]
            /\ readers' = readers \cup {t}
    /\ UNCHANGED <<top_id, free_ids, lock, loc, owned, pusher, handoff, SingleOwnerVars,
                   poisoned, batch, track>>

\* free_ids_num, with a read guard: len() is returned and the guard dropped.
FreeIdsNumLen(t) ==
    /\ pc[t] = "num_len"
    /\ t \in readers
    /\ Shared_len(free_ids) >= 0
    /\ readers' = readers \ {t}
    /\ pc' = [pc EXCEPT ![t] = "idle"]
    /\ UNCHANGED <<top_id, free_ids, lock, loc, owned, pusher, handoff, SingleOwnerVars,
                   poisoned, batch, track>>

\* The steps of a call that is under way.
Step(t) ==
    \/ TakeLock(t)
    \/ AcquirePop(t)
    \/ AcquireFetchAdd(t)
    \/ TryPop(t)
    \/ ReleaseLoad(t)
    \/ ReleasePush(t)
    \/ BatchPush(t)
    \/ ResetStore(t)
    \/ ResetClear(t)
    \/ TakeRead(t)
    \/ FreeIdsNumLen(t)

\* A thread starts a call.
Enter(t) ==
    /\ IssuedOnce
    /\ \/ CallAcquire(t)
       \/ CallTryAcquire(t)
       \/ CallRelease(t)
       \/ CallReleaseIds(t)
       \/ CallReset(t)
       \/ CallFreeIdsNum(t)

SharedFullNext == \E t \in Threads : Enter(t) \/ Step(t)

SpecSharedFull == SharedInit /\ [][SharedFullNext]_vars

\* The scheduler lets every thread run: a thread whose next step is possible
\* from some point on takes it. Nothing more is promised to a thread that asks
\* for the RwLock: std documents no priority policy for it.
SpecSharedFair == SpecSharedFull /\ \A t \in Threads : WF_vars(Step(t))

\* acquire_id, try_acquire_id and release_id of held ids, together with reset.
SharedResetNext ==
    \E t \in Threads :
        \/ /\ IssuedOnce
           /\ CallAcquire(t) \/ CallTryAcquire(t) \/ CallRelease(t) \/ CallReset(t)
        \/ TakeLock(t)
        \/ AcquirePop(t)
        \/ AcquireFetchAdd(t)
        \/ TryPop(t)
        \/ ReleaseLoad(t)
        \/ ReleasePush(t)
        \/ ResetStore(t)
        \/ ResetClear(t)

SpecSharedReset == SharedInit /\ [][SharedResetNext]_vars

\* ------------------------------------ claims about the shared-access IdCache
\* C2: under every interleaving of acquire_id, try_acquire_id and release_id by
\* several threads, each releasing only ids it holds, no id is held twice: not by
\* two threads, and not twice by one.
C2_NoSharedDoubleIssue ==
    \A id \in SharedIds :
        /\ Cardinality(Holders(id)) <= 1
        /\ \A t \in Threads : owned[t][id] <= 1

\* C2's case: an id has gone from the thread that released it to another thread,
\* and every thread holds an id.
C2_Witness ==
    /\ handoff
    /\ \A t \in Threads : pc[t] = "idle" /\ \E id \in SharedIds : owned[t][id] = 1

AllIdle == \A t \in Threads : pc[t] = "idle"

\* C21 as stated: whenever an acquire_id is about to do its fetch_add on top_id,
\* the free list is empty.
C21_FetchAddOnEmpty ==
    \A t \in Threads : pc[t] = "acquire_fetch" => free_ids = <<>>

\* C21 as amended: an acquire_id does its fetch_add only after its own pop, under
\* the lock, found the free list empty, and the list is still empty at the
\* fetch_add unless a release has pushed an id in between; such an id is not
\* lost: once all calls have returned every id below top_id is either held by
\* exactly one thread or exactly once in the free list.
C21_FetchAddAfterEmptyPop ==
    /\ \A t \in Threads :
           (pc[t] = "acquire_fetch" /\ t \notin track.raced) => free_ids = <<>>
    /\ AllIdle =>
           \A id \in 0..(top_id - 1) : Cardinality(Holders(id)) + FreeCount(id) = 1

\* C21's case: two threads are about to do their fetch_add; one has seen a
\* release push an id since its pop, the other made its pop after that id was
\* taken again and found the list empty.
C21_Witness ==
    \E t, u \in Threads :
        /\ pc[t] = "acquire_fetch"
        /\ pc[u] = "acquire_fetch"
        /\ t \notin track.raced
        /\ u \in track.raced
        /\ free_ids = <<>>

\* C22: reset() is atomic for the other threads: once every call has returned,
\* the free list holds no id that is >= top_id.
C22_ResetIsAtomic ==
    AllIdle => \A i \in DOMAIN free_ids : free_ids[i] < top_id

\* The calls that wait for a guard of the RwLock.
WaitsForGuard(t) ==
    pc[t] \in {"acquire_lock", "try_lock", "release_lock", "batch_lock", "reset_lock",
               "num_lock"}

\* The calls that hold a guard of the RwLock.
HasGuard(t) == lock = t \/ t \in readers

\* C23 as stated: under fair scheduling every started call returns.
C23_EveryCallReturns ==
    \A t \in Threads : (pc[t] # "idle") ~> (pc[t] = "idle")

\* C23, amended: no interleaving deadlocks. A call under way can take its next
\* step unless it waits for a guard, and then a thread that holds a guard, and
\* waits for none, can take its next step; a write guard is held only by a call
\* that is about to use it.
C23_NoDeadlock ==
    /\ \A t \in Threads :
           pc[t] # "idle" =>
               \/ ENABLED Step(t)
               \/ /\ WaitsForGuard(t)
                  /\ \E u \in Threads \ {t} :
                         HasGuard(u) /\ ~WaitsForGuard(u) /\ ENABLED Step(u)
    /\ \A t \in Threads :
           lock = t <=> pc[t] \in {"acquire_pop", "try_pop", "release_push", "batch_push",
                                   "reset_clear"}
    /\ \A t \in Threads : t \in readers <=> pc[t] = "num_len"

\* C23's case: a reset() is held up at the lock: it waits for the write guard
\* while a release_ids that has more than one id left to push holds it.
C23_Witness ==
    \E t, u \in Threads :
        /\ t # u
        /\ pc[t] = "reset_lock"
        /\ ~ENABLED Step(t)
        /\ lock = u
        /\ pc[u] = "batch_push"
        /\ Len(batch[u]) > 1

\* C24: a value that insert_with_id(id, v) appended (id == data.len()) is not
\* overwritten by a later insert or try_insert while id has not been removed:
\* insert and try_insert never write to such an id.
C24_DirectNotOverwritten ==
    (last.op \in {"insert", "try_insert"} /\ ~last.panicked /\ last.ret # None)
        => last.ret[1] \notin direct

\* C25: shrink() removes the freed slots by swap_remove from the highest freed id
\* down. In its result every value of an id below the smallest freed id is at
\* the id it had; values of higher ids move: when one id is freed and it is not
\* the last one, the value of the last id takes its place and the values in
\* between stay, so the order of the survivors is not the order of insertion.
C25_ShrinkKeepsLowIds ==
    (last.op = "shrink" /\ ~last.panicked) =>
        /\ last.ret # None
        /\ LET new == last.ret[1]
               n == Len(pre.data)
               low == IF pre.free_ids = {} THEN n ELSE SetMin(pre.free_ids)
           IN  /\ \A id \in 0..(low - 1) :
                      /\ id < ShrinkableStorage_volume(new)
                      /\ ShrinkableStorage_get(new, id) = ShrinkableStorage_get(pre, id)
               /\ (Cardinality(pre.free_ids) = 1 /\ low < n - 1) =>
                      /\ ShrinkableStorage_volume(new) = n - 1
                      /\ ShrinkableStorage_get(new, low) = ShrinkableStorage_get(pre, n - 1)
                      /\ \A id \in (low + 1)..(n - 2) :
                             ShrinkableStorage_get(new, id) = ShrinkableStorage_get(pre, id)

\* C25's case: of three values the middle one is freed: the first keeps id 0,
\* the last is renumbered from id 2 to id 1.
C25_Witness ==
    /\ last.op = "shrink"
    /\ ~last.panicked
    /\ pre.data = <<1, 2, 3>>
    /\ pre.free_ids = {1}
    /\ last.ret = Some([data |-> <<1, 3>>, free_ids |-> {}])

====
